---- MODULE Spec2Model ----
(***************************************************************************)
(* Model of equity_chart_with_signals (interactive_charting.py): one call  *)
(* is a sequence of steps over the caller's objects (the table df and the  *)
(* three list objects the caller may pass) and the function's locals.      *)
(* Python lists are objects on a heap; a local name holds a reference, so  *)
(* list.extend through a local name is visible to every holder of the      *)
(* same object.                                                            *)
(***************************************************************************)
EXTENDS Integers, Sequences, FiniteSets, TLC

VARIABLES
    df,              \* the caller's table: [index, columns, data]
    args,            \* the scalar arguments and the references passed to the call
    heap,            \* list objects: object id -> contents
    marker_symbols,  \* local name: reference to a list object, or "None"
    marker_colors,   \* local name: reference to a list object, or "None"
    df_filtered,     \* local: the filtered copy
    missing_cols,    \* local: list built by the candlestick check
    fig,             \* local: the figure being built, [traces, layout]
    i,               \* local: the loop variable of the signal loop
    err,             \* the exception leaving the call, "none" if none
    pc,              \* position in the function body
    pre,             \* the caller's objects as they were when the call began
    calls            \* number of calls begun so far

vars == <<df, args, heap, marker_symbols, marker_colors, df_filtered,
          missing_cols, fig, i, err, pc, pre, calls>>

-----------------------------------------------------------------------------
(* Bounds of the explored inputs *)

MaxRows == 3
MaxTime == 3
MaxSignals == 3
MaxMarkers == 2
MaxCalls == 2

-----------------------------------------------------------------------------
(* Tables *)

PriceCols == {"open", "high", "low", "close"}
SignalCols == {"sigA", "sigB"}

ColId(c) == CASE c = "open" -> 1 [] c = "high" -> 2 [] c = "low" -> 3
              [] c = "close" -> 4 [] OTHER -> 0

\* the number stored in price column c at row k: distinct for every cell
Cell(c, k) == ColId(c) * 10 + k

Table(index, cols, maskA, maskB) ==
    [index   |-> index,
     columns |-> cols \cup SignalCols,
     data    |-> [c \in cols \cup SignalCols |->
                    IF c = "sigA" THEN maskA
                    ELSE IF c = "sigB" THEN maskB
                    ELSE [k \in 1..Len(index) |-> Cell(c, k)]]]

EmptyDf == [index |-> <<>>, columns |-> {}, data |-> <<>>]

\* df.loc[start:end] on an ascending index, then .copy(): label slicing takes
\* the positions from the first label >= start to the last label <= end
LocEndExclusive(d, start, end) ==
    LET n  == Len(d.index)
        lo == Cardinality({k \in 1..n : d.index[k] < start})
        hi == Cardinality({k \in 1..n : d.index[k] < end})
    IN  [index   |-> SubSeq(d.index, lo + 1, hi),
         columns |-> d.columns,
         data    |-> [c \in d.columns |-> SubSeq(d.data[c], lo + 1, hi)]]

Loc(d, start, end) ==
    LET n  == Len(d.index)
        lo == Cardinality({k \in 1..n : d.index[k] < start})
        hi == Cardinality({k \in 1..n : d.index[k] <= end})
    IN  [index   |-> SubSeq(d.index, lo + 1, hi),
         columns |-> d.columns,
         data    |-> [c \in d.columns |-> SubSeq(d.data[c], lo + 1, hi)]]

\* series[mask]: the entries of series at the positions where mask is true
RECURSIVE BoolIndex(_, _)
BoolIndex(series, mask) ==
    IF Len(series) = 0 THEN <<>>
    ELSE (IF Head(mask) THEN <<Head(series)>> ELSE <<>>)
         \o BoolIndex(Tail(series), Tail(mask))

-----------------------------------------------------------------------------
(* Validation *)

SupportedChartTypes == {"line", "candlestick"}

AnyChartTypeValid(chart_type) == TRUE

ValidChartType(chart_type) == chart_type \in SupportedChartTypes

required_cols == <<"open", "high", "low", "close">>

MissingColsDropsClose(columns) ==
    SelectSeq(SubSeq(required_cols, 1, 3), LAMBDA col : col \notin columns)

MissingCols(columns) == SelectSeq(required_cols, LAMBDA col : col \notin columns)

\* line 61
NamesAbsent(num_signals, names_ref) == num_signals > 0 /\ names_ref = "None"

\* line 64
NamesLengthGuardedByCount(num_signals, names_ref, names_len) ==
    num_signals > 0 /\ names_ref # "None" /\ names_len # num_signals

NamesLengthOnlyShort(num_signals, names_ref, names_len) ==
    names_ref # "None" /\ names_len < num_signals

NamesLengthMismatch(num_signals, names_ref, names_len) ==
    names_ref # "None" /\ names_len # num_signals

-----------------------------------------------------------------------------
(* Marker styles *)

default_symbols == <<"triangle-down", "triangle-up", "circle", "square",
                     "diamond", "cross", "x">>
default_colors == <<"green", "red", "blue", "purple", "orange", "teal",
                    "magenta">>

\* list.extend(list): the list followed by a copy of itself
ExtendWithDefaults(list) == list \o default_symbols

Extend(list) == list \o list

\* list[i % len(list)], i counted from 0
AtWrapped(list, k) == list[(k % Len(list)) + 1]

Capitalize(column) ==
    CASE column = "close" -> "Close"
      [] column = "open"  -> "Open"
      [] column = "high"  -> "High"
      [] column = "low"   -> "Low"
      [] OTHER            -> column

-----------------------------------------------------------------------------
(* Traces *)

NoFig == [traces |-> <<>>, layout |-> {}]

LineTrace(d, price_column) ==
    [type |-> "scatter", mode |-> "lines",
     name |-> <<Capitalize(price_column), "Price">>,
     x |-> d.index, y |-> d.data[price_column],
     open |-> <<>>, high |-> <<>>, low |-> <<>>, close |-> <<>>,
     symbol |-> "", color |-> ""]

CandlestickTrace(d) ==
    [type |-> "candlestick", mode |-> "",
     name |-> <<"OHLC">>,
     x |-> d.index, y |-> <<>>,
     open |-> d.data["open"], high |-> d.data["high"],
     low |-> d.data["low"], close |-> d.data["close"],
     symbol |-> "", color |-> ""]

MarkerTraceAllRows(d, price_column, signal_col, symbol, color) ==
    [type |-> "scatter", mode |-> "markers",
     name |-> <<signal_col>>,
     x |-> d.index,
     y |-> d.data[price_column],
     open |-> <<>>, high |-> <<>>, low |-> <<>>, close |-> <<>>,
     symbol |-> symbol, color |-> color]

MarkerTrace(d, price_column, signal_col, symbol, color) ==
    [type |-> "scatter", mode |-> "markers",
     name |-> <<signal_col>>,
     x |-> BoolIndex(d.index, d.data[signal_col]),
     y |-> BoolIndex(d.data[price_column], d.data[signal_col]),
     open |-> <<>>, high |-> <<>>, low |-> <<>>, close |-> <<>>,
     symbol |-> symbol, color |-> color]

Layout ==
    {<<"title", "Interactive Equity Curve with Technical Signals">>,
     <<"xaxis_title", "Date">>, <<"yaxis_title", "Price">>,
     <<"xaxis.rangeslider.visible", "False">>, <<"xaxis.type", "date">>,
     <<"yaxis.autorange", "True">>, <<"yaxis.fixedrange", "False">>,
     <<"legend.orientation", "h">>, <<"template", "plotly_white">>,
     <<"width", "1600">>, <<"height", "1000">>, <<"hovermode", "closest">>}

-----------------------------------------------------------------------------
(* The calls explored: what a caller may pass *)

SeqsUpTo(S, n) == UNION {[1..k -> S] : k \in 0..n}

\* an optional list argument: not given (None) or a list object
Opt(S) == {[given |-> FALSE, val |-> <<>>]} \cup {[given |-> TRUE, val |-> s] : s \in S}

NoList == [given |-> FALSE, val |-> <<>>]
List(s) == [given |-> TRUE, val |-> s]

\* ascending timestamps
Indexes ==
    {ix \in SeqsUpTo(1..MaxTime, MaxRows) :
        \A k \in 1..(Len(ix) - 1) : ix[k] < ix[k + 1]}

ChartTypes == SupportedChartTypes \cup {"bar"}
SymbolPool == {"circle", "star"}
ColorPool == {"blue", "black"}

\* names of signal columns, cycling over the table's two
CycleNames(n) == [k \in 1..n |-> IF k % 2 = 1 THEN "sigA" ELSE "sigB"]

FixedIndex == [k \in 1..MaxRows |-> k]
FixedMaskA == [k \in 1..MaxRows |-> k % 2 = 1]
FixedMaskB == [k \in 1..MaxRows |-> k > 1]

Input(index, cols, maskA, maskB, start, end, ct, price, n, names, syms, colors) ==
    [df |-> Table(index, cols, maskA, maskB),
     start_date |-> start, end_date |-> end, chart_type |-> ct,
     price_column |-> price, num_signals |-> n,
     names |-> names, symbols |-> syms, colors |-> colors]

\* calls that vary what the validation rules look at
InputsValidation ==
    {Input(FixedIndex, cols, FixedMaskA, FixedMaskB, 1, MaxTime, ct, price, n,
           names, NoList, NoList) :
        cols \in SUBSET PriceCols, ct \in ChartTypes, price \in {"close", "open"},
        n \in (-1)..MaxSignals,
        names \in Opt(SeqsUpTo({"sigA", "sigX"}, MaxSignals))}

\* calls that vary the table and the date range
InputsData ==
    UNION {
      {Input(ix, PriceCols, maskA, maskB, start, end, m[1], m[2], Len(names),
             List(names), NoList, NoList) :
          maskA \in [1..Len(ix) -> BOOLEAN], maskB \in [1..Len(ix) -> BOOLEAN],
          start \in 1..MaxTime, end \in 1..MaxTime,
          m \in {<<"line", "close">>, <<"line", "open">>, <<"candlestick", "close">>},
          names \in {<<"sigA", "sigB">>, <<"sigB">>}} :
      ix \in Indexes}

\* calls that vary the marker lists and the signal count
InputsMarkers ==
    {Input(FixedIndex, PriceCols, FixedMaskA, FixedMaskB, 1, MaxTime, "line",
           "close", nn[1], nn[2], syms, colors) :
        nn \in {<<n, List(CycleNames(n))>> : n \in 0..MaxSignals}
               \cup {<<n, NoList>> : n \in (-1)..0}
               \cup {<<n, List([k \in 1..n |-> "sigX"])>> : n \in 1..MaxSignals},
        syms \in Opt(SeqsUpTo(SymbolPool, MaxMarkers)),
        colors \in Opt(SeqsUpTo(ColorPool, MaxMarkers))}

Inputs == InputsValidation \cup InputsData \cup InputsMarkers

ArgObjects == {"arg_names", "arg_symbols", "arg_colors"}

Ref(opt, obj) == IF opt.given THEN obj ELSE "None"

HeapOf(inp) ==
    [o \in {o \in ArgObjects :
               \/ o = "arg_names" /\ inp.names.given
               \/ o = "arg_symbols" /\ inp.symbols.given
               \/ o = "arg_colors" /\ inp.colors.given} |->
        IF o = "arg_names" THEN inp.names.val
        ELSE IF o = "arg_symbols" THEN inp.symbols.val
        ELSE inp.colors.val]

ArgsOf(inp) ==
    [start_date |-> inp.start_date, end_date |-> inp.end_date,
     chart_type |-> inp.chart_type, price_column |-> inp.price_column,
     num_signals |-> inp.num_signals,
     signal_column_names |-> Ref(inp.names, "arg_names"),
     marker_symbols |-> Ref(inp.symbols, "arg_symbols"),
     marker_colors |-> Ref(inp.colors, "arg_colors")]

Snapshot == [df |-> df, heap |-> heap]

Locals == <<marker_symbols, marker_colors, df_filtered, missing_cols, fig, i, err>>

InitWith(inputs) ==
    /\ \E inp \in inputs :
         /\ df = inp.df
         /\ args = ArgsOf(inp)
         /\ heap = HeapOf(inp)
         /\ pre = [df |-> inp.df, heap |-> HeapOf(inp)]
    /\ marker_symbols = "None"
    /\ marker_colors = "None"
    /\ df_filtered = EmptyDf
    /\ missing_cols = <<>>
    /\ fig = NoFig
    /\ i = 0
    /\ err = "none"
    /\ pc = "idle"
    /\ calls = 0

Init == InitWith(Inputs)

-----------------------------------------------------------------------------
(* The steps of one call *)

\* raise: the call ends with the exception
Raise(kind) ==
    /\ err' = kind
    /\ pc' = "failed"

\* lines 8-14: the caller calls the function with its objects
Call ==
    /\ pc = "idle"
    /\ calls < MaxCalls
    /\ calls' = calls + 1
    /\ pre' = Snapshot
    /\ marker_symbols' = args.marker_symbols
    /\ marker_colors' = args.marker_colors
    /\ pc' = "check_type"
    /\ UNCHANGED <<df, args, heap, df_filtered, missing_cols, fig, i, err>>

\* lines 51-52
CheckChartType ==
    /\ pc = "check_type"
    /\ IF ~ValidChartType(args.chart_type)
         THEN Raise("InvalidChartType")
         ELSE pc' = "check_cols" /\ UNCHANGED err
    /\ UNCHANGED <<df, args, heap, marker_symbols, marker_colors, df_filtered,
                   missing_cols, fig, i, pre, calls>>

\* lines 54-59
CheckColumns ==
    /\ pc = "check_cols"
    /\ IF args.chart_type = "candlestick"
         THEN /\ missing_cols' = MissingCols(df.columns)
              /\ IF missing_cols' # <<>>
                   THEN Raise("MissingColumns")
                   ELSE pc' = "check_names" /\ UNCHANGED err
         ELSE pc' = "check_names" /\ UNCHANGED <<err, missing_cols>>
    /\ UNCHANGED <<df, args, heap, marker_symbols, marker_colors, df_filtered,
                   fig, i, pre, calls>>

\* lines 61-65
CheckSignalNames ==
    /\ pc = "check_names"
    /\ LET ref == args.signal_column_names
           len == IF ref = "None" THEN 0 ELSE Len(heap[ref])
       IN  IF NamesAbsent(args.num_signals, ref)
             THEN Raise("SignalConfigMismatch")
             ELSE IF NamesLengthMismatch(args.num_signals, ref, len)
                    THEN Raise("SignalConfigMismatch")
                    ELSE pc' = "filter" /\ UNCHANGED err
    /\ UNCHANGED <<df, args, heap, marker_symbols, marker_colors, df_filtered,
                   missing_cols, fig, i, pre, calls>>

\* line 68
Filter ==
    /\ pc = "filter"
    /\ df_filtered' = Loc(df, args.start_date, args.end_date)
    /\ pc' = "defaults"
    /\ UNCHANGED <<df, args, heap, marker_symbols, marker_colors,
                   missing_cols, fig, i, err, pre, calls>>

\* lines 71-78: two fresh default lists; a name left None is bound to one
ResolveDefaults ==
    /\ pc = "defaults"
    /\ heap' = [o \in DOMAIN heap \cup {"default_symbols", "default_colors"} |->
                  IF o = "default_symbols" THEN default_symbols
                  ELSE IF o = "default_colors" THEN default_colors
                  ELSE heap[o]]
    /\ marker_symbols' = IF marker_symbols = "None" THEN "default_symbols"
                         ELSE marker_symbols
    /\ marker_colors' = IF marker_colors = "None" THEN "default_colors"
                        ELSE marker_colors
    /\ pc' = "extend_symbols"
    /\ UNCHANGED <<df, args, df_filtered, missing_cols, fig, i, err, pre, calls>>

\* lines 81-82: one test of the loop condition and, if it holds, one extend
\* (extending an empty list leaves it empty: that iteration changes nothing
\* and the loop condition holds again)
ExtendSymbols ==
    /\ pc = "extend_symbols"
    /\ IF Len(heap[marker_symbols]) < args.num_signals
         THEN /\ heap' = [heap EXCEPT ![marker_symbols] = Extend(@)]
              /\ UNCHANGED pc
         ELSE /\ pc' = "extend_colors"
              /\ UNCHANGED heap
    /\ UNCHANGED <<df, args, marker_symbols, marker_colors, df_filtered,
                   missing_cols, fig, i, err, pre, calls>>

\* lines 84-85
ExtendColors ==
    /\ pc = "extend_colors"
    /\ IF Len(heap[marker_colors]) < args.num_signals
         THEN /\ heap' = [heap EXCEPT ![marker_colors] = Extend(@)]
              /\ UNCHANGED pc
         ELSE /\ pc' = "price_trace"
              /\ UNCHANGED heap
    /\ UNCHANGED <<df, args, marker_symbols, marker_colors, df_filtered,
                   missing_cols, fig, i, err, pre, calls>>

\* lines 88-112: df_filtered[column] raises KeyError for an absent column
AddPriceTrace ==
    /\ pc = "price_trace"
    /\ IF args.chart_type = "line"
         THEN IF args.price_column \notin df_filtered.columns
                THEN Raise("KeyError") /\ UNCHANGED fig
                ELSE /\ fig' = [NoFig EXCEPT !.traces =
                                  <<LineTrace(df_filtered, args.price_column)>>]
                     /\ pc' = "signals"
                     /\ UNCHANGED err
         ELSE IF ~(PriceCols \subseteq df_filtered.columns)
                THEN Raise("KeyError") /\ UNCHANGED fig
                ELSE /\ fig' = [NoFig EXCEPT !.traces =
                                  <<CandlestickTrace(df_filtered)>>]
                     /\ pc' = "signals"
                     /\ UNCHANGED err
    /\ i' = 0
    /\ UNCHANGED <<df, args, heap, marker_symbols, marker_colors, df_filtered,
                   missing_cols, pre, calls>>

\* lines 115-136: one iteration of the loop over range(num_signals);
\* subscripting None raises TypeError, an absent column KeyError
AddSignal ==
    /\ pc = "signals"
    /\ IF i < args.num_signals
         THEN IF args.signal_column_names = "None"
                THEN Raise("TypeError") /\ UNCHANGED <<fig, i>>
                ELSE LET signal_col == heap[args.signal_column_names][i + 1]
                     IN  IF \/ signal_col \notin df_filtered.columns
                            \/ args.price_column \notin df_filtered.columns
                           THEN Raise("KeyError") /\ UNCHANGED <<fig, i>>
                           ELSE /\ fig' = [fig EXCEPT !.traces = Append(@,
                                             MarkerTrace(df_filtered,
                                               args.price_column, signal_col,
                                               AtWrapped(heap[marker_symbols], i),
                                               AtWrapped(heap[marker_colors], i)))]
                                /\ i' = i + 1
                                /\ UNCHANGED <<pc, err>>
         ELSE /\ pc' = "layout"
              /\ UNCHANGED <<fig, i, err>>
    /\ UNCHANGED <<df, args, heap, marker_symbols, marker_colors, df_filtered,
                   missing_cols, pre, calls>>

\* lines 139-158
UpdateLayoutAndReturn ==
    /\ pc = "layout"
    /\ fig' = [fig EXCEPT !.layout = Layout]
    /\ pc' = "done"
    /\ UNCHANGED <<df, args, heap, marker_symbols, marker_colors, df_filtered,
                   missing_cols, i, err, pre, calls>>

\* the call is over: its locals and the lists only it referenced are gone;
\* the caller still holds the objects it passed
BackToCaller ==
    /\ pc \in {"done", "failed"}
    /\ calls < MaxCalls
    /\ heap' = [o \in DOMAIN heap \cap ArgObjects |-> heap[o]]
    /\ marker_symbols' = "None"
    /\ marker_colors' = "None"
    /\ df_filtered' = EmptyDf
    /\ missing_cols' = <<>>
    /\ fig' = NoFig
    /\ i' = 0
    /\ err' = "none"
    /\ pc' = "idle"
    /\ UNCHANGED <<df, args, pre, calls>>

Next ==
    \/ Call
    \/ CheckChartType
    \/ CheckColumns
    \/ CheckSignalNames
    \/ Filter
    \/ ResolveDefaults
    \/ ExtendSymbols
    \/ ExtendColors
    \/ AddPriceTrace
    \/ AddSignal
    \/ UpdateLayoutAndReturn
    \/ BackToCaller

Spec == Init /\ [][Next]_vars

\* a sequential program that can take a step takes it
FairSpec == InitWith(InputsMarkers) /\ [][Next]_vars /\ WF_vars(Next)

-----------------------------------------------------------------------------
(* Properties *)

Validating == pc \in {"check_type", "check_cols", "check_names"}
Ended == pc \in {"done", "failed"}

ChartTypeSupported == args.chart_type \in {"line", "candlestick"}
OhlcPresent == {"open", "high", "low", "close"} \subseteq df.columns
ColumnsAcceptable == args.chart_type = "candlestick" => OhlcPresent

NamesGiven == args.signal_column_names # "None"
NamesLen == IF NamesGiven THEN Len(heap["arg_names"]) ELSE 0

\* the marker lists as they were before the call
S0 == IF args.marker_symbols = "None" THEN default_symbols
      ELSE pre.heap["arg_symbols"]
C0 == IF args.marker_colors = "None" THEN default_colors
      ELSE pre.heap["arg_colors"]

\* positions of the rows of df inside the inclusive date range, in table order
KeptRows ==
    SelectSeq([k \in 1..Len(df.index) |-> k],
              LAMBDA k : args.start_date <= df.index[k] /\ df.index[k] <= args.end_date)

\* positions of the kept rows where signal column c is true
SignalRows(c) == SelectSeq(KeptRows, LAMBDA k : df.data[c][k])

Times(rows) == [j \in 1..Len(rows) |-> df.index[rows[j]]]
Values(c, rows) == [j \in 1..Len(rows) |-> df.data[c][rows[j]]]

\* C1: in a successful call with N >= 1 signals and non-empty original marker
\* lists S0 and C0, the marker trace of signal k is styled with
\* S0[k mod len(S0)] and C0[k mod len(C0)]; the index used is always in
\* range; signal 0 with the default palettes gets (triangle-down, green).
C1_StyleIsModuloOverOriginal ==
    /\ (pc = "signals" /\ i < args.num_signals) =>
          /\ Len(heap[marker_symbols]) > 0
          /\ (i % Len(heap[marker_symbols])) + 1 \in DOMAIN heap[marker_symbols]
          /\ Len(heap[marker_colors]) > 0
          /\ (i % Len(heap[marker_colors])) + 1 \in DOMAIN heap[marker_colors]
    /\ (pc = "done" /\ args.num_signals >= 1 /\ Len(S0) > 0 /\ Len(C0) > 0) =>
          /\ \A k \in 0..(args.num_signals - 1) :
                /\ fig.traces[k + 2].symbol = S0[(k % Len(S0)) + 1]
                /\ fig.traces[k + 2].color = C0[(k % Len(C0)) + 1]
          /\ args.marker_symbols = "None" => fig.traces[2].symbol = "triangle-down"
          /\ args.marker_colors = "None" => fig.traces[2].color = "green"

C1_Witness ==
    /\ pc = "done"
    /\ args.num_signals = 3
    /\ args.marker_symbols # "None"
    /\ pre.heap["arg_symbols"] = <<"circle", "star">>
    /\ Len(heap["arg_symbols"]) = 4
    /\ fig.traces[4].symbol = "circle"
    /\ args.marker_colors = "None"
    /\ fig.traces[2].color = "green"

\* C2: when a call has ended (returned or raised), the caller's table and the
\* list objects it passed hold what they held before the call.
C2_CallerObjectsUntouched ==
    Ended => /\ df = pre.df
             /\ \A o \in DOMAIN pre.heap : heap[o] = pre.heap[o]

\* C3: a call that fails fails with one of the three validation errors, and
\* no trace has been added to the figure when it fails.
C3_OnlyValidationErrors ==
    pc = "failed" =>
        /\ err \in {"InvalidChartType", "MissingColumns", "SignalConfigMismatch"}
        /\ fig.traces = <<>>

\* C4: supported chart type, OHLC present in candlestick mode, N > 0, and the
\* name list absent or of a length other than N: the call fails with
\* SignalConfigMismatch and no figure.
C4_SignalConfigMismatch ==
    (/\ ChartTypeSupported
     /\ ColumnsAcceptable
     /\ args.num_signals > 0
     /\ (~NamesGiven \/ NamesLen # args.num_signals)
     /\ pc # "idle" /\ ~Validating)
    => /\ pc = "failed"
       /\ err = "SignalConfigMismatch"
       /\ fig = NoFig

C4_Witness ==
    /\ pc = "failed"
    /\ err = "SignalConfigMismatch"
    /\ args.chart_type = "candlestick"
    /\ args.num_signals = 2
    /\ NamesGiven
    /\ NamesLen = 3

\* C5 as stated: with a supported chart type, required columns present and
\* signal count <= 0, the call never fails with SignalConfigMismatch.
C5_Original ==
    (ChartTypeSupported /\ ColumnsAcceptable /\ args.num_signals <= 0)
    => err # "SignalConfigMismatch"

\* C5 amended: with a supported chart type, required columns present and
\* signal count N <= 0, the call fails with SignalConfigMismatch exactly when
\* a name list is given and its length differs from N.
C5_MismatchOnlyForGivenNames ==
    (/\ ChartTypeSupported
     /\ ColumnsAcceptable
     /\ args.num_signals <= 0
     /\ pc # "idle" /\ ~Validating)
    => ((pc = "failed" /\ err = "SignalConfigMismatch")
          <=> (NamesGiven /\ NamesLen # args.num_signals))

C5_Witness ==
    /\ pc = "failed"
    /\ err = "SignalConfigMismatch"
    /\ ChartTypeSupported
    /\ ColumnsAcceptable
    /\ args.num_signals = 0
    /\ NamesGiven
    /\ NamesLen = 1

\* the marker traces of a returned figure are those of the named signal
\* columns: trace k+1 is labelled with the k-th name and holds the kept rows
\* where that column is true, at (timestamp, price-column value)
MarkerTracesAsNamed ==
    \A k \in 0..(args.num_signals - 1) :
        LET c == heap["arg_names"][k + 1]
            t == fig.traces[k + 2]
        IN  /\ t.mode = "markers"
            /\ t.name = <<c>>
            /\ t.x = Times(SignalRows(c))
            /\ t.y = Values(args.price_column, SignalRows(c))

\* C6 as stated: a returned figure holds exactly 1 + N traces, the price
\* trace first, then the N marker traces of the named signals.
C6_Original ==
    pc = "done" =>
        /\ Len(fig.traces) = 1 + args.num_signals
        /\ fig.traces[1].mode # "markers"
        /\ MarkerTracesAsNamed

\* C6 amended: a returned figure of a call with signal count N >= 0 holds
\* exactly 1 + N traces, the price trace first, then the N marker traces of
\* the named signals (a negative count gives the price trace alone).
C6_TracesForNonNegativeCount ==
    pc = "done" =>
        /\ args.num_signals >= 0 => Len(fig.traces) = 1 + args.num_signals
        /\ args.num_signals < 0 => Len(fig.traces) = 1
        /\ fig.traces[1].mode # "markers"
        /\ MarkerTracesAsNamed

C6_Witness ==
    /\ pc = "done"
    /\ args.num_signals = 2
    /\ Len(df.index) = 3
    /\ Len(KeptRows) = 2
    /\ heap["arg_names"] = <<"sigA", "sigB">>
    /\ Len(fig.traces[2].x) = 1
    /\ Len(fig.traces[3].x) = 2
    /\ fig.traces[2].y # SubSeq(fig.traces[3].y, 1, 1)

\* C7: the price trace of a returned figure holds exactly the rows with
\* start_date <= t <= end_date, in table order; y is the price column in
\* line mode, the four OHLC columns in candlestick mode.
C7_PriceTraceIsInclusiveRange ==
    pc = "done" =>
        LET t == fig.traces[1]
        IN  /\ t.x = Times(KeptRows)
            /\ args.chart_type = "line" =>
                  t.y = Values(args.price_column, KeptRows)
            /\ args.chart_type = "candlestick" =>
                  /\ t.open = Values("open", KeptRows)
                  /\ t.high = Values("high", KeptRows)
                  /\ t.low = Values("low", KeptRows)
                  /\ t.close = Values("close", KeptRows)

C7_Witness ==
    /\ pc = "done"
    /\ df.index = <<1, 2, 3>>
    /\ args.start_date = 2
    /\ args.end_date = 3
    /\ args.chart_type = "candlestick"
    /\ fig.traces[1].x = <<2, 3>>
    /\ fig.traces[1].close = <<42, 43>>

\* C8: in candlestick mode the call fails with MissingColumns exactly when
\* one of open, high, low, close is not a column, and the missing list is
\* exactly the absent ones; in line mode MissingColumns is never raised.
C8_MissingColumnsExact ==
    /\ (args.chart_type = "candlestick" /\ pc \notin {"idle", "check_type", "check_cols"}) =>
          /\ (pc = "failed" /\ err = "MissingColumns") <=> ~OhlcPresent
          /\ err = "MissingColumns" =>
                /\ {missing_cols[k] : k \in DOMAIN missing_cols}
                     = {"open", "high", "low", "close"} \ df.columns
                /\ Len(missing_cols) =
                     Cardinality({"open", "high", "low", "close"} \ df.columns)
    /\ args.chart_type = "line" => err # "MissingColumns"

C8_Witness ==
    /\ pc = "failed"
    /\ err = "MissingColumns"
    /\ missing_cols = <<"high", "close">>
    /\ "open" \in df.columns
    /\ "low" \in df.columns

\* C9: an unsupported chart type makes the call fail with InvalidChartType,
\* whatever the other arguments, before any other check.
C9_InvalidChartTypeFirst ==
    (~ChartTypeSupported /\ pc \notin {"idle", "check_type"})
    => /\ pc = "failed"
       /\ err = "InvalidChartType"
       /\ missing_cols = <<>>
       /\ fig = NoFig

C9_Witness ==
    /\ pc = "failed"
    /\ err = "InvalidChartType"
    /\ ~OhlcPresent
    /\ args.num_signals = 2
    /\ NamesGiven
    /\ NamesLen = 1

\* C10: every call that has begun ends: it returns a figure or raises.
C10_EveryCallEnds == (pc = "check_type") ~> Ended

====
